---- MODULE Spec2Model ----
(***************************************************************************)
(* A model of the canonical LR(1) generator `lr_analysis`: the grammar     *)
(* with its cached FIRST sets (src/src/grammar.rs), items, item sets and   *)
(* the family (src/src/item.rs), the ACTION/GOTO table (src/src/table.rs), *)
(* panic recovery (src/src/panic.rs) and the shift-reduce driver           *)
(* (src/examples/rightmost_derivation.rs).                                 *)
(*                                                                         *)
(* Conventions.  A Terminal or NonTerminal is its identifier (a string); a *)
(* Token is a record [k, id] with k = "T" or "N".  Production ids, state   *)
(* ids and cursors are 0-based as in the source; TLA+ sequences are        *)
(* 1-based, so the production with id i is prods[i + 1].  A CFG text is    *)
(* given already split into lines [head, alts], every alternative a        *)
(* sequence of whitespace-separated words.  The iteration order of a std   *)
(* HashSet is not fixed by the source (every HashSet has a RandomState of  *)
(* its own): an operator that iterates one, or calls one that does, gives  *)
(* the SET of its possible results, one for the element each iteration     *)
(* step may yield next, and the actions choose among the results.          *)
(***************************************************************************)
EXTENDS Integers, Sequences, FiniteSets, TLC

VARIABLES cfg, grammar, pre, query, nq, family, family0, table, drv, action_cell, updates

vars == <<cfg, grammar, pre, query, nq, family, family0, table, drv, action_cell, updates>>

(***************************************************************************)
(* Generic helpers.                                                        *)
(***************************************************************************)
Range(s) == {s[i] : i \in DOMAIN s}

SetMax(S) == CHOOSE x \in S : \A y \in S : y <= x

SetMin(S) == CHOOSE x \in S : \A y \in S : x <= y

RECURSIVE Flatten(_)
Flatten(ss) == IF ss = <<>> THEN <<>> ELSE Head(ss) \o Flatten(Tail(ss))

Reverse(s) == [i \in 1..Len(s) |-> s[Len(s) + 1 - i]]

(***************************************************************************)
(* Token model (src/src/token.rs).                                         *)
(***************************************************************************)
EPSILON == "E"

EOF == "eof"

TermTok(t) == [k |-> "T", id |-> t]

NonTermTok(n) == [k |-> "N", id |-> n]

is_term(tok) == tok.k = "T"

is_non_term(tok) == tok.k = "N"

\* The identifiers the model uses, in the byte order of Rust's str::cmp
\* (upper case before lower case, a prefix before its extensions).
IdentOrder ==
    <<"A", "Aprime", "B", "Bprime", "C", "D", "E", "G", "S", "Sprime",
      "Sprimeprime", "T", "a", "b", "c", "d", "e", "eof", "g", "program",
      "programprime", "stmt", "stmts", "x", "y", "z", "{", "}">>

StrRank(s) == CHOOSE i \in DOMAIN IdentOrder : IdentOrder[i] = s

\* Ordering::{Less, Equal, Greater} as -1, 0, 1.
cmp_int(a, b) == IF a < b THEN -1 ELSE IF a = b THEN 0 ELSE 1

cmp_str(a, b) == IF a = b THEN 0 ELSE cmp_int(StrRank(a), StrRank(b))

\* impl Ord for Terminal: ordinary terminals (shorter first, then by string),
\* then EPSILON, then EOF.
cmp_terminal(a, b) ==
    IF a = EOF /\ b = EOF THEN 0
    ELSE IF b = EOF THEN -1
    ELSE IF a = EOF THEN 1
    ELSE IF a = EPSILON /\ b = EPSILON THEN 0
    ELSE IF b = EPSILON THEN -1
    ELSE IF a = EPSILON THEN 1
    ELSE IF Len(a) # Len(b) THEN cmp_int(Len(a), Len(b))
    ELSE cmp_str(a, b)

\* impl Ord for Token: terminals before non-terminals.
cmp_token(a, b) ==
    IF is_term(a) /\ is_term(b) THEN cmp_terminal(a.id, b.id)
    ELSE IF is_term(a) THEN -1
    ELSE IF is_term(b) THEN 1
    ELSE cmp_str(a.id, b.id)

\* Vec<Token>: lexicographic.
RECURSIVE cmp_tokens(_, _)
cmp_tokens(s, t) ==
    IF s = <<>> /\ t = <<>> THEN 0
    ELSE IF s = <<>> THEN -1
    ELSE IF t = <<>> THEN 1
    ELSE LET c == cmp_token(Head(s), Head(t))
         IN  IF c # 0 THEN c ELSE cmp_tokens(Tail(s), Tail(t))

\* A BTreeSet<Terminal> iterates in ascending order.
sorted_terminals(S) ==
    [i \in 1..Cardinality(S) |->
        CHOOSE x \in S : Cardinality({y \in S : cmp_terminal(y, x) < 0}) = i - 1]

RECURSIVE cmp_terminal_seq(_, _)
cmp_terminal_seq(s, t) ==
    IF s = <<>> /\ t = <<>> THEN 0
    ELSE IF s = <<>> THEN -1
    ELSE IF t = <<>> THEN 1
    ELSE LET c == cmp_terminal(Head(s), Head(t))
         IN  IF c # 0 THEN c ELSE cmp_terminal_seq(Tail(s), Tail(t))

\* A BTreeSet<Token> iterates in ascending order.
sorted_tokens(S) ==
    [i \in 1..Cardinality(S) |->
        CHOOSE x \in S : Cardinality({y \in S : cmp_token(y, x) < 0}) = i - 1]

(***************************************************************************)
(* Productions and the grammar (src/src/grammar.rs).                       *)
(***************************************************************************)
Production(head, tail) == [head |-> head, tail |-> tail]

\* the tail with its epsilons left in
tail_with_eps(prod) == prod.tail

tail_without_eps(prod) ==
    SelectSeq(prod.tail, LAMBDA tok : tok # TermTok(EPSILON))

prod_len(prod) == Len(tail_without_eps(prod))

\* derive(Ord) on Production: head, then tail.
cmp_production(p, q) ==
    IF p.head # q.head THEN cmp_str(p.head, q.head) ELSE cmp_tokens(p.tail, q.tail)

NotPresense == [st |-> "NotPresense", set |-> {}]

Calculating == [st |-> "Calculating", set |-> {}]

Presense(s) == [st |-> "Presense", set |-> s]

NoGrammar ==
    [err |-> "NoGrammar", prods |-> <<>>, prod_indexes |-> <<>>, tokens |-> {},
     start |-> "", first_sets |-> <<>>]

GrammarError(e) == [NoGrammar EXCEPT !.err = e]

\* The productions of one line, alternatives left to right; a word is a
\* NonTerminal iff it is the head of some line.
line_prods(line, non_terminals) ==
    [a \in 1..Len(line.alts) |->
        Production(line.head,
            [j \in 1..Len(line.alts[a]) |->
                IF line.alts[a][j] \in non_terminals
                THEN NonTermTok(line.alts[a][j])
                ELSE TermTok(line.alts[a][j])])]

\* HashMap::insert of (prod, position), in order: a production that occurs
\* twice keeps its last position.
index_map(prods) ==
    [p \in Range(prods) |-> SetMax({i \in DOMAIN prods : prods[i] = p}) - 1]

from_cfg(lines, start) ==
    LET non_terminals == {lines[i].head : i \in DOMAIN lines}
        prods == Flatten([i \in DOMAIN lines |-> line_prods(lines[i], non_terminals)])
        tokens == {TermTok(EPSILON), TermTok(EOF)}
                    \cup {NonTermTok(n) : n \in non_terminals}
                    \cup UNION {Range(prods[i].tail) : i \in DOMAIN prods}
    IN  IF start \notin non_terminals
        THEN GrammarError("StartSymbolNotFound")
        ELSE [err |-> "none",
              prods |-> prods,
              prod_indexes |-> index_map(prods),
              tokens |-> tokens,
              start |-> start,
              first_sets |-> [n \in {t.id : t \in {u \in tokens : is_non_term(u)}}
                                |-> NotPresense]]

augmented_start(g) == g.start \o "prime"

augmented(g) ==
    LET new_start == augmented_start(g)
        augmented_prod == Production(new_start, <<NonTermTok(g.start)>>)
    IN  [err |-> "none",
         prods |-> <<augmented_prod>> \o g.prods,
         prod_indexes |->
            [p \in DOMAIN g.prod_indexes \cup {augmented_prod} |->
                IF p = augmented_prod THEN 0 ELSE g.prod_indexes[p] + 1],
         tokens |-> g.tokens \cup {NonTermTok(new_start)},
         start |-> new_start,
         first_sets |->
            [n \in DOMAIN g.first_sets \cup {new_start} |->
                IF n = new_start THEN NotPresense ELSE g.first_sets[n]]]

\* prods_of collects into a HashSet of productions compared by value.
prods_of(prods, nt) == {p \in Range(prods) : p.head = nt}

(***************************************************************************)
(* FIRST sets (src/src/grammar.rs, calc_first and first_set).  The cache   *)
(* first_sets is threaded through the recursion: every operator takes the  *)
(* cache `fs` and its results hold the cache it leaves behind.  `prods` is *)
(* the grammar's list of productions.                                      *)
(***************************************************************************)
CalcOk(recalc, set, fs) == [err |-> "none", recalc |-> recalc, set |-> set, fs |-> fs]

CalcErr(e, fs) == [err |-> e, recalc |-> FALSE, set |-> {}, fs |-> fs]

RECURSIVE calc_first(_, _, _, _)
RECURSIVE scan_tail(_, _, _, _, _)
RECURSIVE scan_prods(_, _, _, _)

\* The Ok((recalc, s)) arm of the match on calc_first's result r: the set
\* joins first_set; a recalc request marks the production for the second
\* loop (first loop) or the non-terminal itself (second loop).
absorb(st, prod, second, r) ==
    [st EXCEPT
        !.fs = r.fs,
        !.first_set = @ \cup (r.set \ {EPSILON}),
        !.need_recalc = IF ~second /\ r.recalc THEN @ \cup {prod} ELSE @,
        !.should_recalc = IF second /\ r.recalc THEN TRUE ELSE @]

\* The match handing every error of calc_first on, InvalidFirstSetState
\* included
scan_non_terminal_propagating(prods, st, prod, j, second, r) ==
    IF r.err # "none"
    THEN {[st EXCEPT !.fs = r.fs, !.err = r.err]}
    ELSE IF EPSILON \in r.set
    THEN scan_tail(prods, absorb(st, prod, second, r), prod, j + 1, second)
    ELSE {absorb(st, prod, second, r)}

\* The match on one result r of calc_first for the non-terminal at
\* position j of the tail: the states the walk can end in.
scan_non_terminal(prods, st, prod, j, second, r) ==
    IF r.err = "InvalidFirstSetState"
    THEN {[st EXCEPT !.fs = r.fs, !.should_recalc = TRUE]}
    ELSE IF r.err # "none"
    THEN {[st EXCEPT !.fs = r.fs, !.err = r.err]}
    ELSE IF EPSILON \in r.set
    THEN scan_tail(prods, absorb(st, prod, second, r), prod, j + 1, second)
    ELSE {absorb(st, prod, second, r)}

\* One `while !should_break` walk over the tail of `prod` from position j:
\* the states it can end in.
\* st = [fs, first_set, should_recalc, need_recalc, err]; second = FALSE in
\* the first loop over prods_of(nt), TRUE in the loop over need_recalc.
scan_tail(prods, st, prod, j, second) ==
    IF j > Len(prod.tail)
    THEN {[st EXCEPT !.first_set = @ \cup {EPSILON}]}
    ELSE IF prod.tail[j] = TermTok(EPSILON)
    THEN scan_tail(prods, st, prod, j + 1, second)
    ELSE IF is_term(prod.tail[j])
    THEN {[st EXCEPT !.first_set = @ \cup {prod.tail[j].id}]}
    ELSE UNION {scan_non_terminal(prods, st, prod, j, second, r) :
                    r \in calc_first(prods, st.fs, prod.tail[j].id, second)}

\* `for prod in ...` over a HashSet whose elements not yet yielded are
\* `rest`: the iteration yields any of them next.  An error other than
\* InvalidFirstSetState leaves the function at once (`Err(e)?`).
scan_prods(prods, st, rest, second) ==
    IF rest = {} \/ st.err # "none"
    THEN {st}
    ELSE UNION {UNION {scan_prods(prods, s, rest \ {p}, second) :
                            s \in scan_tail(prods, st, p, 1, second)} :
                    p \in rest}

\* The end of calc_first: st is the state after the loop over need_recalc.
calc_first_result(nt, st) ==
    IF st.err # "none"
    THEN CalcErr(st.err, st.fs)
    ELSE CalcOk(st.should_recalc, st.first_set,
                [st.fs EXCEPT ![nt] = Presense(st.first_set)])

\* calc_first after its first loop, which left st: the provisional set is
\* published for the sub-recursion, then need_recalc is gone through.
calc_first_second(prods, nt, st) ==
    IF st.err # "none"
    THEN {CalcErr(st.err, st.fs)}
    ELSE {calc_first_result(nt, s) :
            s \in scan_prods(prods,
                             [st EXCEPT !.fs = [@ EXCEPT ![nt] = Presense(st.first_set)]],
                             st.need_recalc, TRUE)}

\* calc_first(nt, recalc) on the cache fs: the results it can return.
calc_first(prods, fs, nt, recalc) ==
    IF nt \notin DOMAIN fs
    THEN {CalcErr("NonTerminalNotFound", fs)}
    ELSE IF fs[nt].st = "Calculating"
    THEN {CalcErr("InvalidFirstSetState", fs)}
    ELSE IF fs[nt].st = "Presense" /\ ~recalc
    THEN {CalcOk(FALSE, fs[nt].set, fs)}
    ELSE UNION {calc_first_second(prods, nt, s) :
                    s \in scan_prods(prods,
                                     [fs |-> [fs EXCEPT ![nt] = Calculating],
                                      first_set |-> {},
                                      should_recalc |-> FALSE,
                                      need_recalc |-> {},
                                      err |-> "none"],
                                     prods_of(prods, nt), FALSE)}

FirstOk(set, fs) == [err |-> "none", set |-> set, fs |-> fs]

FirstErr(e, fs) == [err |-> e, set |-> {}, fs |-> fs]

\* first_set's `if recalc` after its second call calc_first(nt, true),
\* whose result is r2: a further recalc request is UnresolvableFirstSet.
calc_first_retried(r2) ==
    IF r2.err = "none" /\ r2.recalc
    THEN CalcErr("UnresolvableFirstSet", r2.fs)
    ELSE r2

\* first_set's handling of the result r1 of calc_first(nt, false): a
\* recalc request is answered by calc_first(nt, true).
calc_first_retry(prods, nt, r1) ==
    IF r1.err = "none" /\ r1.recalc
    THEN {calc_first_retried(r2) : r2 \in calc_first(prods, r1.fs, nt, TRUE)}
    ELSE {r1}

RECURSIVE first_set_from(_, _, _, _, _)

\* first_set with the FIRST set r of the non-terminal at position j.
first_set_extend(prods, seq, j, acc, r) ==
    IF r.err # "none"
    THEN {FirstErr(r.err, r.fs)}
    ELSE IF EPSILON \in r.set
    THEN first_set_from(prods, r.fs, seq, j + 1, acc \cup (r.set \ {EPSILON}))
    ELSE {FirstOk(acc \cup r.set, r.fs)}

\* first_set from position j of seq, with the terminals collected so far.
first_set_from(prods, fs, seq, j, acc) ==
    IF j > Len(seq)
    THEN {FirstOk(acc \cup {EPSILON}, fs)}
    ELSE IF seq[j] = TermTok(EPSILON)
    THEN first_set_from(prods, fs, seq, j + 1, acc)
    ELSE IF is_term(seq[j])
    THEN {FirstOk(acc \cup {seq[j].id}, fs)}
    ELSE UNION {UNION {first_set_extend(prods, seq, j, acc, r) :
                            r \in calc_first_retry(prods, seq[j].id, r1)} :
                    r1 \in calc_first(prods, fs, seq[j].id, FALSE)}

\* Grammar::first_set(seq) on the cache fs: the results [err, set, fs] it
\* can return.
first_set(prods, fs, seq) == first_set_from(prods, fs, seq, 1, {})

(***************************************************************************)
(* Reference FIRST sets: the classic least fixpoint over the productions.  *)
(***************************************************************************)
\* FIRST of a token sequence under the assignment F of sets to non-terminals.
RECURSIVE ref_first_seq(_, _, _)
ref_first_seq(F, seq, j) ==
    IF j > Len(seq) THEN {EPSILON}
    ELSE LET tok == seq[j]
         IN  IF tok = TermTok(EPSILON) THEN ref_first_seq(F, seq, j + 1)
             ELSE IF is_term(tok) THEN {tok.id}
             ELSE IF EPSILON \in F[tok.id]
                  THEN (F[tok.id] \ {EPSILON}) \cup ref_first_seq(F, seq, j + 1)
                  ELSE F[tok.id]

RECURSIVE ref_first_fix(_, _)
ref_first_fix(prods, F) ==
    LET G == [n \in DOMAIN F |->
                F[n] \cup UNION {ref_first_seq(F, p.tail, 1) : p \in prods_of(prods, n)}]
    IN  IF G = F THEN F ELSE ref_first_fix(prods, G)

ref_first(g) == ref_first_fix(g.prods, [n \in DOMAIN g.first_sets |-> {}])

(***************************************************************************)
(* Items and item sets (src/src/item.rs).                                  *)
(***************************************************************************)
Item(prod, dot, look_aheads) == [prod |-> prod, dot |-> dot, look_aheads |-> look_aheads]

\* Option::None where a token is expected
NoToken == [k |-> "None", id |-> ""]

with_dot(item, dot) == Item(item.prod, dot, item.look_aheads)

future_seq(item) ==
    LET t == tail_without_eps(item.prod)
    IN  SubSeq(t, item.dot + 2, Len(t))

expected(item) ==
    LET t == tail_without_eps(item.prod)
    IN  IF item.dot + 1 <= Len(t) THEN t[item.dot + 1] ELSE NoToken

\* Item::goto answering Some for terminals only
item_goto_defined_terminal(item, token) ==
    expected(item) # NoToken /\ expected(item) = token /\ is_term(token)

\* Item::goto(token) is Some(item_goto_item) iff item_goto_defined
item_goto_defined(item, token) == expected(item) # NoToken /\ expected(item) = token

item_goto(item, token) == with_dot(item, item.dot + 1)

\* Item::reduces() is Some(look_aheads) iff the item is reducible
reducible(item) == expected(item) = NoToken

core(item) == <<item.prod, item.dot>>

\* derive(Ord) on Item: prod, dot, look_aheads.
cmp_item(a, b) ==
    IF a.prod # b.prod THEN cmp_production(a.prod, b.prod)
    ELSE IF a.dot # b.dot THEN cmp_int(a.dot, b.dot)
    ELSE cmp_terminal_seq(sorted_terminals(a.look_aheads), sorted_terminals(b.look_aheads))

\* A BTreeSet<Item> iterates in ascending order.
sorted_items(S) ==
    [i \in 1..Cardinality(S) |->
        CHOOSE x \in S : Cardinality({y \in S : cmp_item(y, x) < 0}) = i - 1]

\* ItemSet::merge: one item per core, the lookaheads united.
merge(items) ==
    {Item(i.prod, i.dot, UNION {j.look_aheads : j \in {k \in items : core(k) = core(i)}}) :
        i \in items}

\* The lookaheads with the epsilon of first_set's answer left in
closure_look_aheads_with_eps(item, r) ==
    IF EPSILON \in r.set
    THEN r.set \cup item.look_aheads
    ELSE r.set

\* The lookaheads of the items closure adds for `item`, r being the
\* first_set of item.future_seq().
closure_look_aheads(item, r) ==
    IF EPSILON \in r.set
    THEN (r.set \ {EPSILON}) \cup item.look_aheads
    ELSE r.set

\* The body of `for item in &items` for an item expecting a non-terminal;
\* r is a result of first_set(item.future_seq()), whose failure makes
\* `.unwrap()` panic: err records it.
closure_extend(prods, st, item, r) ==
    IF r.err # "none"
    THEN [st EXCEPT !.fs = r.fs, !.err = r.err]
    ELSE [st EXCEPT
            !.fs = r.fs,
            !.new_items = @ \cup {item}
                \cup {Item(p, 0, closure_look_aheads(item, r)) :
                        p \in prods_of(prods, expected(item).id)}]

\* One pass of `for item in &items` in ItemSet::closure, from position i of
\* the sorted items; st = [fs, new_items, err].  The states it can end in.
RECURSIVE closure_pass(_, _, _, _)
closure_pass(prods, st, its, i) ==
    IF i > Len(its) \/ st.err # "none"
    THEN {st}
    ELSE IF expected(its[i]) = NoToken \/ is_term(expected(its[i]))
    THEN closure_pass(prods, st, its, i + 1)
    ELSE UNION {closure_pass(prods, closure_extend(prods, st, its[i], r), its, i + 1) :
                    r \in first_set(prods, st.fs, future_seq(its[i]))}

RECURSIVE closure_loop(_, _, _)

\* The end of one round of the `loop`: st is the state after the pass.
closure_round(prods, items, st) ==
    IF st.err # "none"
    THEN {[err |-> st.err, items |-> items, fs |-> st.fs]}
    ELSE IF st.new_items \ items = {}
    THEN {[err |-> "none", items |-> items, fs |-> st.fs]}
    ELSE closure_loop(prods, st.fs, items \cup st.new_items)

\* The `loop` of ItemSet::closure; its results [err, items, fs], not yet
\* merged.
closure_loop(prods, fs, items) ==
    UNION {closure_round(prods, items, st) :
            st \in closure_pass(prods, [fs |-> fs, new_items |-> {}, err |-> "none"],
                                sorted_items(items), 1)}

\* ItemSet::closure on the cache fs: the results it can give.
closure(prods, fs, items) ==
    {[r EXCEPT !.items = merge(@)] : r \in closure_loop(prods, fs, items)}

\* ItemSet::initial
initial(prods, fs, start) ==
    IF Cardinality(prods_of(prods, start)) # 1
    THEN {[err |-> "GrammarNotAugmented", items |-> {}, fs |-> fs]}
    ELSE closure(prods, fs, {Item(CHOOSE p \in prods_of(prods, start) : TRUE, 0, {EOF})})

\* The items ItemSet::goto moves over `token`, before the closure.
moved(items, token) ==
    {item_goto(i, token) : i \in {j \in items : item_goto_defined(j, token)}}

\* Some(item_set) of ItemSet::goto, r being the closure of the moved items.
goto_some(r) == [some |-> TRUE, err |-> r.err, items |-> r.items, fs |-> r.fs]

\* ItemSet::goto: its results [some, err, items, fs]; some = FALSE is
\* Option::None.
itemset_goto(prods, fs, items, token) ==
    IF moved(items, token) = {}
    THEN {[some |-> FALSE, err |-> "none", items |-> {}, fs |-> fs]}
    ELSE {goto_some(r) : r \in closure(prods, fs, moved(items, token))}

\* ItemSet::reduces: the (item, terminal) pairs in iteration order.
itemset_reduces(items) ==
    Flatten([i \in 1..Cardinality(items) |->
        LET item == sorted_items(items)[i]
            las == sorted_terminals(item.look_aheads)
        IN  IF reducible(item)
            THEN [j \in 1..Len(las) |-> <<item, las[j]>>]
            ELSE <<>>])

(***************************************************************************)
(* The family (src/src/item.rs, Family::from_grammar).                     *)
(* st = [item_sets, new_item_sets, gotos, fs, err]; item_sets_idx maps an  *)
(* item set to its position in item_sets followed by new_item_sets; gotos  *)
(* is the set of edges <<from, token, to>>.                                *)
(***************************************************************************)
item_sets_idx(st, nis) ==
    LET all == st.item_sets \o st.new_item_sets
        at == {i \in DOMAIN all : all[i] = nis}
    IN  IF at = {} THEN -1 ELSE SetMin(at) - 1

\* The body of `if let Some(nis) = is.goto(tok, grammar)`, r being the
\* result of the goto and `to` the id a new item set gets.
family_record(st, from, tok, r, to) ==
    IF ~r.some THEN st
    ELSE IF r.err # "none" THEN [st EXCEPT !.fs = r.fs, !.err = r.err]
    ELSE IF item_sets_idx(st, r.items) >= 0
    THEN [st EXCEPT !.fs = r.fs,
                    !.gotos = @ \cup {<<from, tok, item_sets_idx(st, r.items)>>}]
    ELSE [st EXCEPT !.fs = r.fs,
                    !.gotos = @ \cup {<<from, tok, to>>},
                    !.new_item_sets = Append(@, r.items)]

\* The body of `for &tok in grammar.tokens()` for the state `from`
\* (0-based): the states of the loop it can leave.
family_edge(prods, st, from, tok) ==
    {family_record(st, from, tok, r, Len(st.item_sets) + Len(st.new_item_sets)) :
        r \in itemset_goto(prods, st.fs, st.item_sets[from + 1], tok)}

RECURSIVE family_tokens(_, _, _, _, _)
family_tokens(prods, st, from, toks, j) ==
    IF j > Len(toks) \/ st.err # "none"
    THEN {st}
    ELSE UNION {family_tokens(prods, s, from, toks, j + 1) :
                    s \in family_edge(prods, st, from, toks[j])}

RECURSIVE family_states(_, _, _, _)
family_states(prods, st, from, toks) ==
    IF from >= Len(st.item_sets) \/ st.err # "none"
    THEN {st}
    ELSE UNION {family_states(prods, s, from + 1, toks) :
                    s \in family_tokens(prods, st, from, toks, 1)}

RECURSIVE family_loop(_, _, _)

\* The end of one round of the outer `loop`: st is the state after the
\* pass over all known states.
family_round(prods, st, toks) ==
    IF st.err # "none" \/ st.new_item_sets = <<>>
    THEN {st}
    ELSE family_loop(prods, [st EXCEPT !.item_sets = @ \o st.new_item_sets], toks)

\* The outer `loop`: one pass over all known states, then extend and repeat.
family_loop(prods, st, toks) ==
    UNION {family_round(prods, s, toks) :
            s \in family_states(prods, [st EXCEPT !.new_item_sets = <<>>], 0, toks)}

\* The Family value: the fields of the final loop state.
family_of(st) ==
    [err |-> st.err, item_sets |-> st.item_sets, gotos |-> st.gotos, fs |-> st.fs]

\* from_grammar after ItemSet::initial, one result of which is i0.
family_from(g, i0) ==
    IF i0.err # "none"
    THEN {[err |-> i0.err, item_sets |-> <<>>, gotos |-> {}, fs |-> i0.fs]}
    ELSE {family_of(s) :
            s \in family_loop(g.prods,
                    [item_sets |-> <<i0.items>>, new_item_sets |-> <<>>, gotos |-> {},
                     fs |-> i0.fs, err |-> "none"],
                    sorted_tokens(g.tokens))}

\* Family::from_grammar: the families it can return, each with the FIRST
\* cache it leaves in the grammar; err # "none" is the panic of an
\* `.unwrap()`.
from_grammar(g) ==
    UNION {family_from(g, i0) : i0 \in initial(g.prods, g.first_sets, g.start)}

\* Family::gotos_of(state): the edges (token, to) of one state
gotos_of(fam, state) == {<<e[2], e[3]>> : e \in {d \in fam.gotos : d[1] = state}}

(***************************************************************************)
(* The ACTION/GOTO table (src/src/table.rs).                               *)
(***************************************************************************)
Shift(state) == [t |-> "Shift", n |-> state]

Reduce(prod) == [t |-> "Reduce", n |-> prod]

Accept == [t |-> "Accept"]

Empty == [t |-> "Empty"]

Conflict(a, b) == [t |-> "Conflict", l |-> a, r |-> b]

is_conflict(cell) == cell.t = "Conflict"

\* an update that replaces what the cell holds
update_overwrite(this, cell) ==
    [cell |-> IF cell.t = "Empty" THEN this ELSE cell, conflict |-> FALSE]

\* ActionCell::update: the new content of the cell and the returned flag.
update(this, cell) ==
    IF this.t = "Empty" THEN [cell |-> cell, conflict |-> FALSE]
    ELSE IF cell.t = "Empty" THEN [cell |-> this, conflict |-> FALSE]
    ELSE IF this.t = "Conflict" THEN [cell |-> Conflict(this, cell), conflict |-> TRUE]
    ELSE IF cell.t = "Conflict" THEN [cell |-> Conflict(this, cell), conflict |-> TRUE]
    ELSE [cell |-> Conflict(this, cell), conflict |-> FALSE]

\* ActionCell::flatten: the leaves from left to right.
RECURSIVE flatten(_)
flatten(cell) ==
    IF cell.t = "Conflict" THEN flatten(cell.l) \o flatten(cell.r) ELSE <<cell>>

index_of_prod(g, prod) ==
    IF prod \in DOMAIN g.prod_indexes THEN g.prod_indexes[prod] ELSE -1

\* terms / non_terms: the columns, in the order of grammar.tokens()
table_terms(g) ==
    LET toks == sorted_tokens({t \in g.tokens : is_term(t)})
    IN  [i \in DOMAIN toks |-> toks[i].id]

table_non_terms(g) ==
    LET toks == sorted_tokens({t \in g.tokens : is_non_term(t)})
    IN  [i \in DOMAIN toks |-> toks[i].id]

\* term_idxes / non_term_idxes, 0-based; -1 for a missing key
idx_of(seq, x) ==
    IF \E i \in DOMAIN seq : seq[i] = x
    THEN (CHOOSE i \in DOMAIN seq : seq[i] = x) - 1
    ELSE -1

\* A BTreeSet<(Token, usize)> iterates by token, then by state.
sorted_edges(S) ==
    [i \in 1..Cardinality(S) |->
        CHOOSE x \in S :
            Cardinality({y \in S :
                \/ cmp_token(y[1], x[1]) < 0
                \/ (y[1] = x[1] /\ y[2] < x[2])}) = i - 1]

\* What the two inner loops of build_from write into the ACTION row of
\* `row`, in the order they write it: <<column, cell>>, columns 0-based.
action_writes(fam, g, row) ==
    LET terms == table_terms(g)
        edges == sorted_edges({e \in gotos_of(fam, row) : is_term(e[1])})
        reds == itemset_reduces(fam.item_sets[row + 1])
    IN  [i \in DOMAIN edges |-> <<idx_of(terms, edges[i][1].id), Shift(edges[i][2])>>]
        \o [i \in DOMAIN reds |->
                LET prod_idx == index_of_prod(g, reds[i][1].prod)
                    term_idx == idx_of(terms, reds[i][2])
                IN  <<term_idx,
                      IF prod_idx = 0 /\ term_idx = Len(terms) - 1
                      THEN Accept
                      ELSE Reduce(prod_idx)>>]

\* The cell of column col after the writes from position i on, and whether
\* any update reported a conflict; acc = [cell, conflict].
RECURSIVE apply_writes(_, _, _, _)
apply_writes(acc, writes, i, col) ==
    IF i > Len(writes) THEN acc
    ELSE IF writes[i][1] # col THEN apply_writes(acc, writes, i + 1, col)
    ELSE LET u == update(acc.cell, writes[i][2])
         IN  apply_writes([cell |-> u.cell, conflict |-> acc.conflict \/ u.conflict],
                          writes, i + 1, col)

\* Table::build_from.  action[row + 1][col + 1] is the ACTION cell,
\* goto[row + 1][col + 1] the GOTO cell (-1 for None).
build_from(fam, g) ==
    LET terms == table_terms(g)
        non_terms == table_non_terms(g)
        rows == Len(fam.item_sets)
        cells == [r \in 1..rows |->
                    LET writes == action_writes(fam, g, r - 1)
                    IN  [c \in 1..Len(terms) |->
                            apply_writes([cell |-> Empty, conflict |-> FALSE],
                                         writes, 1, c - 1)]]
    IN  [action |-> [r \in 1..rows |-> [c \in 1..Len(terms) |-> cells[r][c].cell]],
         goto |-> [r \in 1..rows |->
                    [c \in 1..Len(non_terms) |->
                        LET tos == {e[2] : e \in {d \in gotos_of(fam, r - 1) :
                                        d[1] = NonTermTok(non_terms[c])}}
                        IN  IF tos = {} THEN -1 ELSE SetMax(tos)]],
         terms |-> terms,
         non_terms |-> non_terms,
         conflict |-> \E r \in 1..rows : \E c \in 1..Len(terms) : cells[r][c].conflict]

\* Table::action(state, term): Option<&ActionCell>; NoCell is None
NoCell == [t |-> "None"]

table_action(tab, state, term) ==
    IF idx_of(tab.terms, term) < 0 \/ state + 1 > Len(tab.action)
    THEN NoCell
    ELSE tab.action[state + 1][idx_of(tab.terms, term) + 1]

\* Table::goto answering Some(Some(0)) where the state has no edge
table_goto_total(tab, state, non_term) ==
    IF idx_of(tab.non_terms, non_term) < 0 \/ state + 1 > Len(tab.goto)
    THEN -2
    ELSE IF tab.goto[state + 1][idx_of(tab.non_terms, non_term) + 1] = -1
    THEN 0
    ELSE tab.goto[state + 1][idx_of(tab.non_terms, non_term) + 1]

\* Table::goto(state, non_term): -2 is None, -1 is Some(None)
table_goto(tab, state, non_term) ==
    IF idx_of(tab.non_terms, non_term) < 0 \/ state + 1 > Len(tab.goto)
    THEN -2
    ELSE tab.goto[state + 1][idx_of(tab.non_terms, non_term) + 1]

(***************************************************************************)
(* Panic recovery (src/src/panic.rs).                                      *)
(***************************************************************************)
PShift(x, to) == [t |-> "Shift", x |-> x, n |-> to]

PReduce(prod) == [t |-> "Reduce", x |-> "", n |-> prod]

PAccept == [t |-> "Accept", x |-> "", n |-> 0]

PEmpty == [t |-> "Empty", x |-> "", n |-> 0]

\* Item::with_dot_inc: the item with the dot advanced by one
with_dot_inc(item) == with_dot(item, item.dot + 1)

\* The match on one result r of first_set in first_set_with_fallthrough
fallthrough_of(r, fallthrough) ==
    IF r.err # "none" THEN r
    ELSE IF EPSILON \in r.set
    THEN FirstOk((r.set \ {EPSILON}) \cup fallthrough, r.fs)
    ELSE r

\* Grammar::first_set_with_fallthrough(seq, fallthrough):
\* FIRST(seq) if it has no epsilon, else (FIRST(seq) - epsilon) + fallthrough
first_set_with_fallthrough(prods, fs, seq, fallthrough) ==
    {fallthrough_of(r, fallthrough) : r \in first_set(prods, fs, seq)}

RECURSIVE panic_scan(_, _, _, _)

\* The end of the loop body for an item expecting a terminal with the one
\* edge `to`, r being a result of first_set_with_fallthrough.
panic_shift(env, its, i, to, r) ==
    IF r.err # "none"
    THEN {[err |-> r.err, act |-> PEmpty, fs |-> r.fs]}
    ELSE IF env.term \in r.set
    THEN {[err |-> "none", act |-> PShift(expected(its[i]).id, to), fs |-> r.fs]}
    ELSE panic_scan(env, r.fs, its, i + 1)

\* The loop body for an item expecting the terminal e, `to` being the
\* targets of the edges of the state on e.
panic_terminal(env, fs, its, i, to) ==
    IF to = {}
    THEN {[err |-> "unwrap", act |-> PEmpty, fs |-> fs]}
    ELSE IF Cardinality(to) # 1
    THEN {[err |-> "AmbiguousGrammar", act |-> PEmpty, fs |-> fs]}
    ELSE IF reducible(with_dot_inc(its[i])) /\ env.term \in its[i].look_aheads
    THEN {[err |-> "none",
           act |-> PShift(expected(its[i]).id, CHOOSE x \in to : TRUE),
           fs |-> fs]}
    ELSE UNION {panic_shift(env, its, i, CHOOSE x \in to : TRUE, r) :
                    r \in first_set_with_fallthrough(env.g.prods, fs,
                            future_seq(with_dot_inc(its[i])), its[i].look_aheads)}

\* The `for i in is.items()` loop of panic_action from position i of the
\* sorted items; env = [fam, g, state, term]; its results [err, act, fs].
panic_scan(env, fs, its, i) ==
    IF i > Len(its)
    THEN {[err |-> "none", act |-> PEmpty, fs |-> fs]}
    ELSE IF expected(its[i]) = NoToken
    THEN {[err |-> "none",
           act |-> IF index_of_prod(env.g, its[i].prod) = 0
                   THEN PAccept
                   ELSE PReduce(index_of_prod(env.g, its[i].prod)),
           fs |-> fs]}
    ELSE IF is_non_term(expected(its[i]))
    THEN panic_scan(env, fs, its, i + 1)
    ELSE panic_terminal(env, fs, its, i,
            {d[2] : d \in {c \in gotos_of(env.fam, env.state) : c[1] = expected(its[i])}})

\* Table::panic_action(state, term): the results it can give
panic_action(fam, g, state, term) ==
    IF state + 1 > Len(fam.item_sets)
    THEN {[err |-> "StateNotFound", act |-> PEmpty, fs |-> g.first_sets]}
    ELSE panic_scan([fam |-> fam, g |-> g, state |-> state, term |-> term],
                    g.first_sets, sorted_items(fam.item_sets[state + 1]), 1)

(***************************************************************************)
(* The driver (src/examples/rightmost_derivation.rs).                      *)
(* d = [status, why, input, terms, pos, stack, step, steps, recovered,     *)
(* skipped]: terms is the input (line numbers left out), pos the number of *)
(* terms the stream has yielded, so that peek() is (pos, terms[pos]) or    *)
(* None; input keeps the terms as they were given, recovered tells that    *)
(* panic recovery was consulted, skipped that a reduction found no GOTO.   *)
(***************************************************************************)
\* usize::MAX, the cursor of an exhausted stream; TLC's largest integer
\* stands for it: only its being larger than every length matters.
UsizeMax == 2147483647

Last(s) == s[Len(s)]

Front(s) == SubSeq(s, 1, Len(s) - 1)

\* a panic of the driver (a failed unwrap, assertion or bounds check)
Abort(d, why) == [d EXCEPT !.status = "abort", !.why = why]

\* fn shift pushing the state and leaving `step` alone
shift_without_token(d, state, term) ==
    [d EXCEPT !.pos = IF d.pos < Len(d.terms) THEN d.pos + 1 ELSE d.pos,
              !.stack = Append(@, state)]

\* fn shift: term_stream.next(), push the state and the terminal
shift(d, state, term) ==
    [d EXCEPT !.pos = IF d.pos < Len(d.terms) THEN d.pos + 1 ELSE d.pos,
              !.stack = Append(@, state),
              !.step = Append(@, TermTok(term))]

\* The `for tok in prod.tail()...rev()` loop of fn reduce.
RECURSIVE pop_tail(_, _, _)
pop_tail(d, toks, i) ==
    IF i > Len(toks) THEN d
    ELSE IF d.step = <<>> THEN Abort(d, "step.pop().unwrap()")
    ELSE IF Last(d.step) # toks[i] THEN Abort(d, "assert_eq!(popen, *tok)")
    ELSE IF d.stack = <<>> THEN Abort(d, "stack.pop().unwrap()")
    ELSE pop_tail([d EXCEPT !.step = Front(@), !.stack = Front(@)], toks, i + 1)

\* fn reduce
reduce(d, tab, g, prod, cursor) ==
    IF prod + 1 > Len(g.prods)
    THEN Abort(d, "prods().get(prod).unwrap()")
    ELSE LET p == g.prods[prod + 1]
             d1 == [d EXCEPT !.steps = Append(@, [step |-> d.step, cursor |-> cursor])]
             d2 == pop_tail(d1, Reverse(tail_without_eps(p)), 1)
             d3 == [d2 EXCEPT !.step = Append(@, NonTermTok(p.head))]
             new_state == table_goto(tab, Last(d3.stack), p.head)
         IN  IF d2.status = "abort" THEN d2
             ELSE IF d3.stack = <<>> THEN Abort(d3, "stack.last().unwrap()")
             ELSE IF new_state = -2 THEN Abort(d3, "table.goto().unwrap()")
             ELSE IF new_state = -1 THEN [d3 EXCEPT !.skipped = TRUE]
             ELSE [d3 EXCEPT !.stack = Append(@, new_state)]

Done(d, status) == [d EXCEPT !.status = IF @ = "abort" THEN @ ELSE status]

\* The ActionCell::Empty arm of the loop body.
recover(d, tab, g, pa, cursor, term) ==
    IF pa.err # "none" THEN Abort(d, "panic_action().unwrap(): " \o pa.err)
    ELSE IF pa.act.t = "Reduce" THEN reduce(d, tab, g, pa.act.n, cursor)
    ELSE IF pa.act.t = "Shift"
    THEN IF cursor > Len(d.terms)
         THEN Abort(d, "terms.insert(cursor, ..)")
         ELSE shift([d EXCEPT
                        !.terms = SubSeq(@, 1, cursor) \o <<pa.act.x>>
                                    \o SubSeq(@, cursor + 1, Len(@)),
                        !.pos = cursor],
                    pa.act.n, pa.act.x)
    ELSE IF pa.act.t = "Accept" THEN Done(reduce(d, tab, g, 0, cursor), "accepted")
    ELSE IF term = EOF THEN Done(d, "escaped")
    ELSE [d EXCEPT !.pos = IF d.pos < Len(d.terms) THEN d.pos + 1 ELSE d.pos]

\* One iteration of the parse loop: the results [d, fs] it can have, one
\* unless panic recovery is consulted.
driver_step(d, tab, fam, g) ==
    LET top == Last(d.stack)
        exhausted == d.pos >= Len(d.terms)
        cursor == IF exhausted THEN UsizeMax ELSE d.pos
        term == IF exhausted THEN EOF ELSE d.terms[d.pos + 1]
        action == table_action(tab, top, term)
    IN  IF d.stack = <<>>
        THEN {[d |-> Abort(d, "stack.last().unwrap()"), fs |-> g.first_sets]}
        ELSE IF action = NoCell
        THEN {[d |-> Abort(d, "table.action().unwrap()"), fs |-> g.first_sets]}
        ELSE IF action.t = "Shift"
        THEN {[d |-> shift(d, action.n, term), fs |-> g.first_sets]}
        ELSE IF action.t = "Reduce"
        THEN {[d |-> reduce(d, tab, g, action.n, cursor), fs |-> g.first_sets]}
        ELSE IF action.t = "Conflict"
        THEN {[d |-> Abort(d, "unreachable!()"), fs |-> g.first_sets]}
        ELSE IF action.t = "Accept"
        THEN {[d |-> Done(reduce(d, tab, g, 0, cursor), "accepted"), fs |-> g.first_sets]}
        ELSE {[d |-> recover([d EXCEPT !.recovered = TRUE], tab, g, pa, cursor, term),
               fs |-> pa.fs] :
                pa \in panic_action(fam, g, top, term)}

(***************************************************************************)
(* The inputs: CFG texts, given as lines.                                  *)
(***************************************************************************)
Line(head, alts) == [head |-> head, alts |-> alts]

Cfg(lines, start) == [lines |-> lines, start |-> start]

\* src/src/item.rs test goto_preserves_lookahead
CfgLookahead ==
    Cfg(<<Line("S", <<<<"A", "b">>>>), Line("A", <<<<"a">>>>)>>, "S")

\* src/src/item.rs test goto_basic_transition: `E` is a head here
CfgHeadE ==
    Cfg(<<Line("S", <<<<"E">>>>), Line("E", <<<<"a">>>>)>>, "S")

\* src/src/item.rs tests goto_triggers_closure_and_recursion and
\* family_of_itemsets_repeaten
CfgStmts ==
    Cfg(<<Line("program", <<<<"stmts">>>>),
          Line("stmts", <<<<"stmt", "stmts">>, <<"stmt">>>>)>>, "program")

\* src/src/grammar.rs test first
CfgFirstTest ==
    Cfg(<<Line("program", <<<<"stmts">>>>),
          Line("stmts", <<<<"{", "stmt", "stmts", "}">>, <<"stmt">>, <<"E">>,
                          <<"program">>>>)>>, "program")

\* direct left recursion
CfgLeftRec ==
    Cfg(<<Line("A", <<<<"A", "a">>, <<"b">>>>)>>, "A")

\* left recursion behind a start that is not recursive
CfgLeftRecList ==
    Cfg(<<Line("S", <<<<"A">>>>), Line("A", <<<<"A", "a">>, <<"b">>>>)>>, "S")

\* a left-recursive cycle through three non-terminals
CfgCycle3 ==
    Cfg(<<Line("A", <<<<"B">>, <<"a">>>>), Line("B", <<<<"C">>>>),
          Line("C", <<<<"A", "z">>, <<"c">>>>)>>, "A")

\* the same cycle with a nullable member
CfgCycle3Eps ==
    Cfg(<<Line("A", <<<<"B", "x">>, <<"E">>>>), Line("B", <<<<"C">>>>),
          Line("C", <<<<"A">>, <<"c">>>>)>>, "A")

\* two alternatives reach the same cycle
CfgDiamond ==
    Cfg(<<Line("S", <<<<"A">>, <<"B">>, <<"x">>>>), Line("A", <<<<"B", "a">>>>),
          Line("B", <<<<"S", "b">>, <<"c">>>>)>>, "S")

\* nullable non-terminals in a row
CfgNullable ==
    Cfg(<<Line("S", <<<<"A", "B">>>>), Line("A", <<<<"a">>, <<"E">>>>),
          Line("B", <<<<"b">>, <<>>>>)>>, "S")

\* the grammar already declares `Sprime`
CfgPrimeHead ==
    Cfg(<<Line("S", <<<<"Sprime">>>>), Line("Sprime", <<<<"a">>>>)>>, "S")

\* the grammar already contains the production `Sprime -> S`
CfgPrimeProd ==
    Cfg(<<Line("S", <<<<"a">>>>), Line("Sprime", <<<<"S">>>>)>>, "S")

\* the same production twice
CfgDuplicate ==
    Cfg(<<Line("S", <<<<"a">>, <<"a">>>>)>>, "S")

\* the start symbol heads no line
CfgNoStart ==
    Cfg(<<Line("S", <<<<"a">>>>)>>, "T")

\* reduce/reduce conflict on eof
CfgConflict ==
    Cfg(<<Line("S", <<<<"A">>, <<"B">>>>), Line("A", <<<<"a">>>>),
          Line("B", <<<<"a">>>>)>>, "S")

\* three reductions compete for one cell
CfgConflict3 ==
    Cfg(<<Line("S", <<<<"A">>, <<"B">>, <<"C">>>>), Line("A", <<<<"a">>>>),
          Line("B", <<<<"a">>>>), Line("C", <<<<"a">>>>)>>, "S")

\* two sentences sharing a prefix
CfgPair ==
    Cfg(<<Line("S", <<<<"a", "b">>, <<"a", "A">>>>), Line("A", <<<<"c">>, <<"E">>>>)>>, "S")

\* a left-recursive cycle used as a follower in two contexts
CfgStale ==
    Cfg(<<Line("S", <<<<"D", "A">>, <<"d", "D", "C">>>>), Line("D", <<<<"E">>>>),
          Line("A", <<<<"B">>, <<"a">>>>), Line("B", <<<<"C">>>>),
          Line("C", <<<<"A", "z">>, <<"c">>>>)>>, "S")

\* a left-recursive diamond used as a follower in two contexts
CfgOrder ==
    Cfg(<<Line("S", <<<<"D", "A">>, <<"d", "D", "C">>>>), Line("D", <<<<"d">>>>),
          Line("A", <<<<"B">>, <<"C">>, <<"x">>>>), Line("B", <<<<"C", "a">>>>),
          Line("C", <<<<"A", "b">>, <<"c">>>>)>>, "S")

\* a nullable member of a left-recursive cycle (C), first cached without
\* `b`, is computed again when FIRST(D) is asked for
CfgRepair ==
    Cfg(<<Line("S", <<<<"A", "B">>, <<"x", "A", "C", "A", "D">>>>),
          Line("A", <<<<"y">>>>), Line("B", <<<<"C", "b">>, <<"E">>>>),
          Line("C", <<<<"B">>>>), Line("D", <<<<"C", "T">>>>),
          Line("T", <<<<"D">>, <<"a">>>>)>>, "S")

\* the same with a non-terminal in front of the second alternative
CfgRepairGoto ==
    Cfg(<<Line("S", <<<<"A", "B">>, <<"A", "A", "C", "A", "D">>>>),
          Line("A", <<<<"y">>>>), Line("B", <<<<"C", "b">>, <<"E">>>>),
          Line("C", <<<<"B">>>>), Line("D", <<<<"C", "T">>>>),
          Line("T", <<<<"D">>, <<"a">>>>)>>, "S")

\* epsilon written inside a longer tail and as a tail of its own
CfgEpsInside ==
    Cfg(<<Line("S", <<<<"a", "E", "A", "E">>>>), Line("A", <<<<"E", "b">>, <<"E">>>>)>>, "S")

\* a state whose reducible item sorts before an item that panic recovery
\* could shift over: after `a`, A -> a . comes before B -> a . x
CfgPanicOrder ==
    Cfg(<<Line("S", <<<<"A", "d">>, <<"B", "c">>>>), Line("A", <<<<"a">>>>),
          Line("B", <<<<"a", "x">>>>)>>, "S")

\* CfgRepair with the stale FIRST(C) read in state 0 already: the closure
\* of I0 asks first_set([B]) before first_set([C, z]), and FIRST(C) is
\* computed again when GOTO(I0, x) asks first_set([D])
CfgRepairStart ==
    Cfg(<<Line("S", <<<<"A", "B">>, <<"G", "C", "z">>, <<"x", "A", "D">>>>),
          Line("A", <<<<"y">>>>), Line("G", <<<<"g">>>>),
          Line("B", <<<<"C", "b">>, <<"E">>>>), Line("C", <<<<"B">>>>),
          Line("D", <<<<"C", "T">>>>), Line("T", <<<<"D">>, <<"a">>>>)>>, "S")

\* the grammar already contains `Sprime -> S`, and `Sprime` stands in a
\* tail: the augmented start symbol is expected in state 0
CfgPrimeTail ==
    Cfg(<<Line("S", <<<<"a">>, <<"Sprime", "b">>>>), Line("Sprime", <<<<"S">>>>)>>, "S")

CFGs ==
    {CfgLookahead, CfgHeadE, CfgStmts, CfgFirstTest, CfgLeftRec, CfgLeftRecList,
     CfgCycle3, CfgCycle3Eps, CfgDiamond, CfgNullable, CfgPrimeHead, CfgPrimeProd,
     CfgDuplicate, CfgNoStart, CfgConflict, CfgConflict3, CfgPair, CfgStale,
     CfgOrder, CfgRepair, CfgRepairGoto, CfgRepairStart, CfgPrimeTail,
     CfgEpsInside, CfgPanicOrder}

(***************************************************************************)
(* Bounds.                                                                 *)
(***************************************************************************)
\* first_set calls made on one Grammar value
MaxQueries == 2

\* The token sequences first_set is called with: every single token of the
\* grammar and every suffix of a production tail, the empty one included
\* (the sequences ItemSet::closure asks for are among the latter; the empty
\* one is the future_seq of an item whose dot is before its last symbol).
QuerySeqs(g) ==
    {<<t>> : t \in g.tokens}
        \cup UNION {{SubSeq(p.tail, j, Len(p.tail)) : j \in 1..(Len(p.tail) + 1)} :
                        p \in Range(g.prods)}

\* the longest input of the driver, in terminals
MaxInput == 3

\* the parse loop is followed while reductions logged plus terminals passed
\* stay below this number
MaxSteps == 12

RECURSIVE SeqsUpTo(_, _)
SeqsUpTo(S, n) ==
    IF n = 0 THEN {<<>>}
    ELSE LET shorter == SeqsUpTo(S, n - 1)
         IN  shorter \cup {Append(w, x) : w \in {v \in shorter : Len(v) = n - 1}, x \in S}

\* the terminals an input is written with: those of the grammar, epsilon
\* and EOF left out
input_terminals(g) ==
    {t.id : t \in {k \in g.tokens : is_term(k)}} \ {EPSILON, EOF}

Inputs(g) == SeqsUpTo(input_terminals(g), MaxInput)

\* the updates followed on one ACTION cell
MaxWrites == 3

\* the largest state or production number written into the cell
MaxOperand == 1

\* the outcomes update is called with: everything but a Conflict
Outcomes ==
    {Empty, Accept} \cup {Shift(n) : n \in 0..MaxOperand}
        \cup {Reduce(n) : n \in 0..MaxOperand}

(***************************************************************************)
(* The state machine.                                                      *)
(***************************************************************************)
NoQuery == [seq |-> <<>>, err |-> "NoQuery", set |-> {}]

NoFamily == [err |-> "NoFamily", item_sets |-> <<>>, gotos |-> {}]

NoTable ==
    [err |-> "NoTable", action |-> <<>>, goto |-> <<>>, terms |-> <<>>,
     non_terms |-> <<>>, conflict |-> FALSE]

NoDriver ==
    [status |-> "NoDriver", why |-> "", input |-> <<>>, terms |-> <<>>, pos |-> 0,
     stack |-> <<>>, step |-> <<>>, steps |-> <<>>, recovered |-> FALSE,
     skipped |-> FALSE]

\* augmented() has been applied to the grammar from_cfg built (kept in pre)
IsAugmented == pre # NoGrammar

Init ==
    /\ cfg \in CFGs
    /\ grammar = NoGrammar
    /\ pre = NoGrammar
    /\ query = NoQuery
    /\ nq = 0
    /\ family = NoFamily
    /\ family0 = NoFamily
    /\ table = NoTable
    /\ drv = NoDriver
    /\ action_cell = Empty
    /\ updates = <<>>

\* Grammar::from_cfg(text, start, bump)
FromCfg ==
    /\ grammar = NoGrammar
    /\ grammar' = from_cfg(cfg.lines, cfg.start)
    /\ UNCHANGED <<cfg, pre, query, nq, family, family0, table, drv, action_cell, updates>>

\* grammar.augmented(), as every caller does it: right after from_cfg
Augmented ==
    /\ grammar.err = "none"
    /\ pre = NoGrammar
    /\ nq = 0
    /\ family = NoFamily
    /\ pre' = grammar
    /\ grammar' = augmented(grammar)
    /\ UNCHANGED <<cfg, query, nq, family, family0, table, drv, action_cell, updates>>

\* grammar.first_set(seq)
FirstSetCall ==
    /\ grammar.err = "none"
    /\ nq < MaxQueries
    /\ family = NoFamily
    /\ \E seq \in QuerySeqs(grammar) :
       \E r \in first_set(grammar.prods, grammar.first_sets, seq) :
          /\ grammar' = [grammar EXCEPT !.first_sets = r.fs]
          /\ query' = [seq |-> seq, err |-> r.err, set |-> r.set]
    /\ nq' = nq + 1
    /\ UNCHANGED <<cfg, pre, family, family0, table, drv, action_cell, updates>>

\* Family::from_grammar(&grammar); the FIRST cache of the grammar keeps what
\* the construction computed.
BuildFamily ==
    /\ grammar.err = "none"
    /\ family = NoFamily
    /\ \E f \in from_grammar(grammar) :
          /\ family' = [err |-> f.err, item_sets |-> f.item_sets, gotos |-> f.gotos]
          /\ grammar' = [grammar EXCEPT !.first_sets = f.fs]
    /\ UNCHANGED <<cfg, pre, query, nq, family0, table, drv, action_cell, updates>>

\* the grammar of the same text, built anew
fresh_grammar ==
    IF IsAugmented
    THEN augmented(from_cfg(cfg.lines, cfg.start))
    ELSE from_cfg(cfg.lines, cfg.start)

\* A second run of Family::from_grammar on the same grammar, built anew
\* from the same text; family0 keeps its result.
BuildFamilyAgain ==
    /\ family.err = "none"
    /\ family0 = NoFamily
    /\ table = NoTable
    /\ \E f \in from_grammar(fresh_grammar) :
          family0' = [err |-> f.err, item_sets |-> f.item_sets, gotos |-> f.gotos]
    /\ UNCHANGED <<cfg, grammar, pre, query, nq, family, table, drv, action_cell, updates>>

\* Table::build_from(&family, &grammar)
BuildTable ==
    /\ family.err = "none"
    /\ family0 = NoFamily
    /\ table = NoTable
    /\ LET t == build_from(family, grammar)
       IN  table' = [err |-> "none", action |-> t.action, goto |-> t.goto,
                     terms |-> t.terms, non_terms |-> t.non_terms,
                     conflict |-> t.conflict]
    /\ UNCHANGED <<cfg, grammar, pre, query, nq, family, family0, drv, action_cell, updates>>

\* main of the driver up to the parse loop, on the table of the augmented
\* grammar: assert!(!table.conflict()),
\* the input split into terminals, stack = [0], step and steps empty
DriverStart ==
    /\ IsAugmented
    /\ table.err = "none"
    /\ drv = NoDriver
    /\ \E input \in Inputs(grammar) :
          LET d == [status |-> "running", why |-> "", input |-> input,
                    terms |-> input, pos |-> 0, stack |-> <<0>>, step |-> <<>>,
                    steps |-> <<>>, recovered |-> FALSE, skipped |-> FALSE]
          IN  drv' = IF table.conflict
                     THEN Abort(d, "assert!(!table.conflict())")
                     ELSE d
    /\ UNCHANGED <<cfg, grammar, pre, query, nq, family, family0, table, action_cell, updates>>

\* one iteration of the parse loop
DriverStep ==
    /\ drv.status = "running"
    /\ Len(drv.steps) + drv.pos < MaxSteps
    /\ \E r \in driver_step(drv, table, family, grammar) :
          /\ drv' = r.d
          /\ grammar' = [grammar EXCEPT !.first_sets = r.fs]
    /\ UNCHANGED <<cfg, pre, query, nq, family, family0, table, action_cell, updates>>

Next == FromCfg \/ Augmented \/ FirstSetCall

Spec == Init /\ [][Next]_vars

NextLR ==
    \/ FromCfg
    \/ Augmented
    \/ BuildFamily
    \/ BuildFamilyAgain
    \/ BuildTable
    \/ DriverStart
    \/ DriverStep

SpecLR == Init /\ [][NextLR]_vars

\* cell.update(c) on one ACTION cell, Empty at first, with an outcome that
\* is not a Conflict; updates keeps the outcomes in arrival order.
CellUpdate ==
    /\ Len(updates) < MaxWrites
    /\ \E c \in Outcomes :
          /\ action_cell' = update(action_cell, c).cell
          /\ updates' = Append(updates, c)
    /\ UNCHANGED <<cfg, grammar, pre, query, nq, family, family0, table, drv>>

NextCell == CellUpdate

SpecCell == Init /\ [][NextCell]_vars

(***************************************************************************)
(* Claims about the grammar and its FIRST sets.                            *)
(***************************************************************************)
\* the last first_set call was made on the one-element sequence [A]
QueriedNonTerminal == Len(query.seq) = 1 /\ is_non_term(query.seq[1])

\* C1: first_set on [A] returns exactly the classical FIRST(A), the set the
\* least fixpoint over the productions computes.
C1_FirstIsClassical ==
    QueriedNonTerminal =>
        /\ query.err = "none"
        /\ query.set = ref_first(grammar)[query.seq[1].id]

\* C6: epsilon is in the FIRST set reported and cached for A iff A derives
\* the empty string, whatever was queried before.
C6_EpsilonIffNullable ==
    \A n \in DOMAIN grammar.first_sets :
        grammar.first_sets[n].st = "Presense" =>
            (EPSILON \in grammar.first_sets[n].set <=> EPSILON \in ref_first(grammar)[n])

\* C7: first_set never fails with UnresolvableFirstSet, left recursion
\* included.
C7_NeverUnresolvable == query.err # "UnresolvableFirstSet"

(***************************************************************************)
(* Claims about augmentation.                                              *)
(***************************************************************************)
\* C8: after augmented(), production 0 is `Sprime -> S` with S the previous
\* start, the start symbol is Sprime, and every other production sits one
\* position later, in prods() and in index_of_prod alike.
C8_IdsShiftByOne ==
    IsAugmented =>
        /\ grammar.start = augmented_start(pre)
        /\ grammar.prods[1] = Production(augmented_start(pre), <<NonTermTok(pre.start)>>)
        /\ index_of_prod(grammar, grammar.prods[1]) = 0
        /\ Len(grammar.prods) = Len(pre.prods) + 1
        /\ \A i \in 1..Len(pre.prods) :
              /\ grammar.prods[i + 1] = pre.prods[i]
              /\ index_of_prod(grammar, pre.prods[i])
                    = index_of_prod(pre, pre.prods[i]) + 1

\* C9: after augmented(), exactly one production has the head `<start>prime`;
\* it is production 0 and its tail is the original start symbol alone.
C9_AugmentedStartFresh ==
    IsAugmented =>
        /\ Cardinality({i \in DOMAIN grammar.prods :
                            grammar.prods[i].head = augmented_start(pre)}) = 1
        /\ grammar.prods[1].head = augmented_start(pre)
        /\ grammar.prods[1].tail = <<NonTermTok(pre.start)>>

(***************************************************************************)
(* Claims about the table.                                                 *)
(***************************************************************************)
\* Table::build_from has returned
TableBuilt == table.err = "none"

\* some ACTION cell of the table is a Conflict node
HasConflictCell ==
    \E r \in DOMAIN table.action :
        \E c \in DOMAIN table.action[r] : is_conflict(table.action[r][c])

\* C2: conflict() is true iff some ACTION cell of the built table is a
\* Conflict node.
C2_ConflictIffConflictCell ==
    TableBuilt => (table.conflict <=> HasConflictCell)

(***************************************************************************)
(* Claims about the driver.                                                *)
(***************************************************************************)
\* Reference: the positions j such that the first k tokens of tail derive
\* w[i+1..j], given the spans D = {<<A, i, j>>} known to be derivable.
RECURSIVE ref_ends(_, _, _, _, _)
ref_ends(D, w, tail, k, i) ==
    IF k = 0 THEN {i}
    ELSE LET prev == ref_ends(D, w, tail, k - 1, i)
             tok == tail[k]
         IN  IF is_term(tok)
             THEN IF tok.id = EPSILON THEN prev
                  ELSE {q + 1 : q \in {r \in prev : r < Len(w) /\ w[r + 1] = tok.id}}
             ELSE {d[3] : d \in {e \in D : e[1] = tok.id /\ e[2] \in prev}}

\* Reference: the least set of spans <<A, i, j>> with A =>* w[i+1..j].
RECURSIVE ref_spans(_, _, _)
ref_spans(prods, w, D) ==
    LET next == D \cup UNION {UNION {{<<p.head, i, j>> :
                                        j \in ref_ends(D, w, p.tail, Len(p.tail), i)} :
                                     i \in 0..Len(w)} : p \in Range(prods)}
    IN  IF next = D THEN D ELSE ref_spans(prods, w, next)

\* Reference: w is a sentence of the grammar
in_language(g, w) == <<g.start, 0, Len(w)>> \in ref_spans(g.prods, w, {})

\* the sentential form of the k-th logged snapshot: its step followed by
\* the input not consumed at its cursor
snapshot_form(d, k) ==
    d.steps[k].step
        \o [i \in 1..(IF d.steps[k].cursor >= Len(d.terms) THEN 0
                      ELSE Len(d.terms) - d.steps[k].cursor) |->
                TermTok(d.terms[d.steps[k].cursor + i])]

\* Reference: to is obtained from from by rewriting its rightmost
\* non-terminal with one production
rightmost_step(prods, from, to) ==
    \E p \in Range(prods) : \E i \in 1..Len(from) :
        /\ from[i] = NonTermTok(p.head)
        /\ \A j \in (i + 1)..Len(from) : is_term(from[j])
        /\ to = SubSeq(from, 1, i - 1) \o tail_without_eps(p)
                    \o SubSeq(from, i + 1, Len(from))

\* the log read in reverse is a rightmost derivation of the input from start
valid_rightmost_derivation(d, prods, start) ==
    /\ Len(d.steps) >= 1
    /\ snapshot_form(d, Len(d.steps)) = <<NonTermTok(start)>>
    /\ snapshot_form(d, 1) = [i \in 1..Len(d.input) |-> TermTok(d.input[i])]
    /\ \A k \in 1..(Len(d.steps) - 1) :
          rightmost_step(prods, snapshot_form(d, k + 1), snapshot_form(d, k))

\* the driver has been started on an input
DriverStarted == drv.status # "NoDriver"

\* C3: on a conflict-free table and an input w of L(G) the driver never
\* consults panic recovery, never aborts, and when it has accepted the
\* logged snapshots read in reverse are a rightmost derivation of w from
\* the start symbol.
C3_DriverCorrect ==
    (DriverStarted /\ ~HasConflictCell /\ in_language(pre, drv.input)) =>
        /\ ~drv.recovered
        /\ drv.status \in {"running", "accepted"}
        /\ drv.status = "accepted" =>
              valid_rightmost_derivation(drv, pre.prods, pre.start)

\* C5: carrying out a panic directive Shift(x, s') never aborts the driver,
\* the exhausted input (lookahead defaulted to EOF) included.
C5_PanicShiftNeverAborts ==
    ~(drv.status = "abort" /\ drv.why = "terms.insert(cursor, ..)")

(***************************************************************************)
(* Claims about the canonical collection.                                  *)
(***************************************************************************)
\* from_grammar has run a second time on the same grammar
BuiltTwice == family0 # NoFamily

\* C4: two runs of Family::from_grammar on the same grammar give the same
\* item sets under the same state ids and the same GOTO edges, whatever the
\* order in which prods_of enumerates the productions.
C4_FamilyDeterministic ==
    BuiltTwice => family0 = family

\* Family::from_grammar has just returned a collection: nothing has used it
\* yet
FamilyBuilt == family.err = "none" /\ family0 = NoFamily /\ table = NoTable

\* no two items of the set share a core (production, dot)
is_merged(items) ==
    \A i, j \in items : core(i) = core(j) => i = j

\* closure applied to the set again gives the set back, whatever the
\* order its HashSets iterate in
is_closed(items) ==
    \A r \in closure(grammar.prods, grammar.first_sets, items) :
        r.err = "none" /\ r.items = items

\* C10: every state of a family (each is the result of ItemSet::initial or
\* ItemSet::goto) is closed and merged: closure gives it back unchanged and
\* no two of its items share a core.
C10_ItemSetsClosedAndMerged ==
    FamilyBuilt =>
        \A k \in DOMAIN family.item_sets :
            is_merged(family.item_sets[k]) /\ is_closed(family.item_sets[k])

\* Family::from_grammar has returned a collection
FamilyExists == family.err = "none"

\* the family records an edge from state s (0-based) on token t
has_edge(s, t) == \E e \in family.gotos : e[1] = s /\ e[2] = t

\* C11: for every state s and every token t of the grammar, epsilon and
\* EOF included, the family has an edge (s, t) iff some item of s expects t.
C11_EdgeIffExpected ==
    FamilyExists =>
        \A k \in DOMAIN family.item_sets : \A t \in grammar.tokens :
            has_edge(k - 1, t) <=> \E i \in family.item_sets[k] : expected(i) = t

\* a family with a state that has edges on a terminal and on a
\* non-terminal, a state without edges, and epsilon among the tokens
C11_Witness ==
    /\ FamilyExists
    /\ TermTok(EPSILON) \in grammar.tokens
    /\ \E k \in DOMAIN family.item_sets :
          /\ \E t \in grammar.tokens : is_term(t) /\ has_edge(k - 1, t)
          /\ \E t \in grammar.tokens : is_non_term(t) /\ has_edge(k - 1, t)
    /\ \E k \in DOMAIN family.item_sets :
          \A t \in grammar.tokens : ~has_edge(k - 1, t)

\* the states (0-based) reached from the states R through recorded edges
RECURSIVE reached_from(_)
reached_from(R) ==
    LET next == R \cup {e[3] : e \in {d \in family.gotos : d[1] \in R}}
    IN  IF next = R THEN R ELSE reached_from(next)

\* state 0 is what ItemSet::initial gives
starts_with_initial ==
    \A i0 \in initial(grammar.prods, grammar.first_sets, grammar.start) :
        i0.err = "none" /\ family.item_sets[1] = i0.items

\* every defined GOTO of a listed state is a listed state, under an edge
closed_under_goto ==
    \A k \in DOMAIN family.item_sets : \A t \in grammar.tokens :
        \A r \in itemset_goto(grammar.prods, grammar.first_sets, family.item_sets[k], t) :
            r.some =>
                /\ r.err = "none"
                /\ \E j \in DOMAIN family.item_sets :
                      family.item_sets[j] = r.items /\ <<k - 1, t, j - 1>> \in family.gotos

\* C12: when from_grammar returns, state 0 is I0, every defined GOTO of a
\* listed state is a listed state with the edge recorded, and every listed
\* state is reached from state 0 through recorded edges.
C12_ClosedUnderGoto ==
    FamilyBuilt =>
        /\ starts_with_initial
        /\ closed_under_goto
        /\ reached_from({0}) = {k - 1 : k \in DOMAIN family.item_sets}

\* C20: GOTO is single-valued in every family from_grammar built: no state
\* has two recorded edges on one token, and so panic_action never fails
\* with AmbiguousGrammar.
C20_GotoSingleValued ==
    /\ FamilyExists =>
          \A e1, e2 \in family.gotos :
              (e1[1] = e2[1] /\ e1[2] = e2[2]) => e1[3] = e2[3]
    /\ ~(drv.status = "abort" /\ drv.why = "panic_action().unwrap(): AmbiguousGrammar")

(***************************************************************************)
(* Claims about the table.                                                 *)
(***************************************************************************)
\* the outcomes the filling rules prescribe for ACTION[s][t]: a Shift per
\* edge of s on the terminal t, and per reducible item of s with t among
\* its lookaheads Accept (production 0, t = EOF) or Reduce
prescribed_leaves(s, t) ==
    {Shift(e[3]) : e \in {d \in family.gotos : d[1] = s /\ d[2] = TermTok(t)}}
        \cup {IF index_of_prod(grammar, i.prod) = 0 /\ t = EOF
              THEN Accept
              ELSE Reduce(index_of_prod(grammar, i.prod)) :
                i \in {j \in family.item_sets[s + 1] :
                         reducible(j) /\ t \in j.look_aheads}}

\* ACTION[s][t] holds the prescribed outcomes, each once, and nothing else
action_as_prescribed(s, t) ==
    LET cell == table_action(table, s, t)
        want == prescribed_leaves(s, t)
    IN  IF want = {}
        THEN cell = Empty
        ELSE /\ Range(flatten(cell)) = want
             /\ Len(flatten(cell)) = Cardinality(want)

\* GOTO[s][A] = s' iff the family has the edge (s, A) -> s'
goto_as_prescribed(s, A) ==
    \A to \in 0..(Len(family.item_sets) - 1) :
        table_goto(table, s, A) = to <=> <<s, NonTermTok(A), to>> \in family.gotos

\* C13: in the table of an augmented grammar every ACTION cell holds the
\* outcomes the filling rules prescribe and nothing else, and GOTO[s][A] is
\* s' exactly when the family has the edge (s, A) -> s'.
C13_TableAsPrescribed ==
    (IsAugmented /\ TableBuilt) =>
        \A s \in 0..(Len(family.item_sets) - 1) :
            /\ \A t \in Range(table.terms) : action_as_prescribed(s, t)
            /\ \A A \in Range(table.non_terms) : goto_as_prescribed(s, A)

\* the left-nested Conflict tree over a non-empty sequence of outcomes
RECURSIVE left_nested(_)
left_nested(cs) ==
    IF Len(cs) = 1 THEN cs[1]
    ELSE Conflict(left_nested(SubSeq(cs, 1, Len(cs) - 1)), cs[Len(cs)])

\* the non-Empty outcomes written so far, in arrival order
written == SelectSeq(updates, LAMBDA c : c # Empty)

\* C14: after any sequence of updates with outcomes that are not Conflicts
\* on a cell that was Empty, nothing written is lost: the cell is the
\* left-nested Conflict tree over the non-Empty outcomes (the outcome itself
\* when there is one) and flatten yields them in arrival order.
C14_UpdateKeepsArrivalOrder ==
    IF written = <<>>
    THEN action_cell = Empty
    ELSE action_cell = left_nested(written) /\ flatten(action_cell) = written

\* three updates with an Empty one in the middle and the same outcome twice
C14_Witness ==
    /\ Len(updates) = MaxWrites
    /\ updates[2] = Empty
    /\ updates[1] = updates[3] /\ updates[1] # Empty
    /\ is_conflict(action_cell)

(***************************************************************************)
(* Claims about from_cfg.                                                  *)
(***************************************************************************)
\* the grammar as from_cfg returned it
parsed == IF IsAugmented THEN pre ELSE grammar

\* from_cfg has returned a grammar
Parsed == parsed.err = "none"

\* the alternatives of the lines above line i
RECURSIVE alts_before(_)
alts_before(i) ==
    IF i = 1 THEN 0 ELSE alts_before(i - 1) + Len(cfg.lines[i - 1].alts)

\* the word is the head of a line of the text, above or below
is_head(word) == \E i \in DOMAIN cfg.lines : cfg.lines[i].head = word

\* alternative a of line i is the production at position id of prods(): its
\* head is the head of the line and its tail has the words of the
\* alternative, a NonTerminal for a head of the text and a Terminal otherwise
alternative_at(i, a, id) ==
    LET words == cfg.lines[i].alts[a]
        prod == parsed.prods[id + 1]
    IN  /\ prod.head = cfg.lines[i].head
        /\ Len(prod.tail) = Len(words)
        /\ \A j \in DOMAIN words :
              /\ prod.tail[j].id = words[j]
              /\ is_non_term(prod.tail[j]) <=> is_head(words[j])
              /\ is_term(prod.tail[j]) <=> ~is_head(words[j])

\* C15: from_cfg makes a tail symbol a NonTerminal iff the word heads some
\* line of the text, above or below its use, and a Terminal otherwise, and
\* the productions get their ids in insertion order: lines top to bottom,
\* alternatives left to right, in prods() and in index_of_prod alike.
C15_ClassifiedAndNumbered ==
    Parsed =>
        /\ Len(parsed.prods) = alts_before(Len(cfg.lines) + 1)
        /\ \A i \in DOMAIN cfg.lines : \A a \in DOMAIN cfg.lines[i].alts :
              /\ alternative_at(i, a, alts_before(i) + a - 1)
              /\ index_of_prod(parsed, parsed.prods[alts_before(i) + a]) =
                    alts_before(i) + a - 1

(***************************************************************************)
(* Claims about ItemSet::initial and Item.                                 *)
(***************************************************************************)
\* from_grammar has been called; ItemSet::initial is its first step
FamilyAsked == family # NoFamily

\* the ids of the productions the start symbol heads
start_prod_ids == {i \in DOMAIN grammar.prods : grammar.prods[i].head = grammar.start}

\* state 0 is the closure of the one item [production, dot 0, {EOF}],
\* computed on the grammar as it was before the family was built
is_closure_of_start(prod) ==
    \E r \in closure(fresh_grammar.prods, fresh_grammar.first_sets,
                     {Item(prod, 0, {EOF})}) :
        family.item_sets[1] = r.items

\* C16: ItemSet::initial fails with GrammarNotAugmented iff the start symbol
\* does not head exactly one production; when it heads exactly one, what
\* initial returns is the closure of [that production, dot 0, {EOF}].
C16_InitialNeedsOneStartProduction ==
    FamilyAsked =>
        /\ family.err = "GrammarNotAugmented" <=> Cardinality(start_prod_ids) # 1
        /\ (family.err = "none" /\ Cardinality(start_prod_ids) = 1) =>
              is_closure_of_start(grammar.prods[CHOOSE i \in start_prod_ids : TRUE])

\* the n-th symbol (from 0) of the tail from position j on, epsilons not
\* counted; NoToken past the end
RECURSIVE nth_non_eps(_, _, _)
nth_non_eps(tail, j, n) ==
    IF j > Len(tail) THEN NoToken
    ELSE IF tail[j] = TermTok(EPSILON) THEN nth_non_eps(tail, j + 1, n)
    ELSE IF n = 0 THEN tail[j]
    ELSE nth_non_eps(tail, j + 1, n - 1)

\* expected, reduces and goto of one item agree with the tail read without
\* its epsilons
item_skips_eps(item) ==
    LET want == nth_non_eps(item.prod.tail, 1, item.dot)
    IN  /\ expected(item) = want
        /\ reducible(item) <=> want = NoToken
        /\ ~item_goto_defined(item, TermTok(EPSILON))
        /\ \A X \in grammar.tokens :
              /\ item_goto_defined(item, X) <=> want = X
              /\ item_goto_defined(item, X) =>
                    item_goto(item, X) = Item(item.prod, item.dot + 1, item.look_aheads)

\* C17: epsilon contributes no length to an item.  For every item of a
\* family set to every dot of its production, expected is the dot-th symbol
\* of the tail without its epsilons (None past it, which makes the item
\* reducible), goto(X) is the item with dot + 1 and the same lookaheads iff
\* expected is X, and goto(epsilon) is None.
C17_EpsilonHasNoLength ==
    FamilyBuilt =>
        \A k \in DOMAIN family.item_sets : \A i \in family.item_sets[k] :
            \A d \in 0..Len(i.prod.tail) : item_skips_eps(with_dot(i, d))

\* a family with an item of tail [E], reducible at dot 0, and an item that
\* has passed an epsilon written inside its tail
C17_Witness ==
    /\ FamilyBuilt
    /\ \E k \in DOMAIN family.item_sets : \E i \in family.item_sets[k] :
          i.prod.tail = <<TermTok(EPSILON)>> /\ i.dot = 0 /\ reducible(i)
    /\ \E k \in DOMAIN family.item_sets : \E i \in family.item_sets[k] :
          /\ i.dot >= 1
          /\ Len(i.prod.tail) > i.dot
          /\ i.prod.tail[i.dot + 1] = TermTok(EPSILON)
          /\ is_non_term(expected(i))

(***************************************************************************)
(* More claims about FIRST sets.                                           *)
(***************************************************************************)
\* the last first_set call was made on the empty sequence
QueriedEmpty == query # NoQuery /\ query.seq = <<>>

\* C18: first_set called with an empty token sequence returns the empty
\* set, which is not the set that holds epsilon only.
C18_EmptySeqGivesEmptySet ==
    QueriedEmpty => query.err = "none" /\ query.set = {}

\* the sequence without its element at position k
without(seq, k) == SubSeq(seq, 1, k - 1) \o SubSeq(seq, k + 1, Len(seq))

\* the texts with one production less: one alternative taken out of a line
\* that has several, so that every head stays a head
smaller_texts ==
    UNION {{[cfg.lines EXCEPT ![i].alts = without(@, a)] :
                a \in DOMAIN cfg.lines[i].alts} :
            i \in {k \in DOMAIN cfg.lines : Len(cfg.lines[k].alts) >= 2}}

\* the grammar of a smaller text, augmented if the grammar of the state is
smaller_grammar(lines) ==
    IF IsAugmented
    THEN augmented(from_cfg(lines, cfg.start))
    ELSE from_cfg(lines, cfg.start)

\* what first_set can return for seq on a grammar just built
first_set_anew(g, seq) == first_set(g.prods, g.first_sets, seq)

\* the grammar with one production less computes no terminal for seq that
\* the set got from the grammar of the state lacks
smaller_below(g, seq, set) ==
    \A r \in first_set_anew(g, seq) : r.err = "none" => r.set \subseteq set

\* C19: FIRST is monotone in the grammar.  The set first_set computes for a
\* non-terminal A on the grammar contains the set it computes for A on
\* every grammar with one production less.
C19_FirstMonotone ==
    (QueriedNonTerminal /\ query.err = "none") =>
        \A lines \in smaller_texts :
            smaller_below(smaller_grammar(lines), query.seq, query.set)

(***************************************************************************)
(* Claims about panic recovery.                                            *)
(***************************************************************************)
\* the table has just been built: the driver has not started
TableFresh == TableBuilt /\ drv = NoDriver

\* the pairs (state, terminal) panic recovery is consulted for: the Empty
\* cells of ACTION
empty_cells ==
    {<<s, a>> \in (0..(Len(family.item_sets) - 1)) \X Range(table.terms) :
        table_action(table, s, a) = Empty}

\* the item expects a terminal and, with the dot moved past it, has `a`
\* among its lookaheads when reducible, or in FIRST-with-fallthrough of its
\* remaining tail and lookaheads
qualifies_for_shift(item, a) ==
    /\ expected(item) # NoToken
    /\ is_term(expected(item))
    /\ \/ reducible(with_dot_inc(item)) /\ a \in item.look_aheads
       \/ \E r \in first_set_with_fallthrough(grammar.prods, grammar.first_sets,
                        future_seq(with_dot_inc(item)), item.look_aheads) :
              a \in r.set

\* the outcome the three steps of the recovery routine allow for (s, a)
follows_priority(s, a, act) ==
    LET items == family.item_sets[s + 1]
        shifts == {i \in items : qualifies_for_shift(i, a)}
        reds == {i \in items : reducible(i)}
    IN  IF shifts # {}
        THEN \E i \in shifts :
                act = PShift(expected(i).id,
                             CHOOSE to \in 0..(Len(family.item_sets) - 1) :
                                <<s, expected(i), to>> \in family.gotos)
        ELSE IF reds # {}
        THEN \E i \in reds :
                act = IF index_of_prod(grammar, i.prod) = 0
                      THEN PAccept
                      ELSE PReduce(index_of_prod(grammar, i.prod))
        ELSE act = PEmpty

\* C21: panic_action(s, a) follows the three-step priority: Shift(x, s')
\* whenever an item of s qualifies for a shift over its expected terminal
\* x, Accept or Reduce(p) for a reducible item only when no item qualifies
\* for a shift, Empty only when neither kind of item is there.
C21_PanicPriority ==
    (IsAugmented /\ TableFresh) =>
        \A c \in empty_cells : \A pa \in panic_action(family, grammar, c[1], c[2]) :
            pa.err = "none" => follows_priority(c[1], c[2], pa.act)

(***************************************************************************)
(* Claims about the closure (src/src/item.rs).                             *)
(***************************************************************************)
\* the lookaheads the reference closure gives the items it adds for
\* [A -> alpha . B beta, L]: FIRST(beta) without epsilon, and L when beta is
\* empty or nullable
ref_look_aheads(F, item) ==
    LET fb == ref_first_seq(F, future_seq(item), 1)
    IN  (fb \ {EPSILON}) \cup (IF EPSILON \in fb THEN item.look_aheads ELSE {})

\* the items one reference step adds, unmerged
ref_added(F, prods, items) ==
    UNION {{Item(p, 0, ref_look_aheads(F, i)) : p \in prods_of(prods, expected(i).id)} :
             i \in {j \in items : expected(j) # NoToken /\ ~is_term(expected(j))}}

\* items of equal core made one item with the union of the lookaheads
ref_merged(items) ==
    {Item(c[1], c[2], UNION {i.look_aheads : i \in {j \in items : core(j) = c}}) :
        c \in {core(i) : i \in items}}

\* the reference LR(1) closure: the least merged item set with the kernel
RECURSIVE ref_closure(_, _, _)
ref_closure(F, prods, items) ==
    LET more == ref_merged(items \cup ref_added(F, prods, items))
    IN  IF more = items THEN items ELSE ref_closure(F, prods, more)

\* the kernel of state k (1-based position in item_sets): the start item
\* for the first state, the items past their first token for the others
kernel_of(k) ==
    IF k = 1 THEN {Item(grammar.prods[1], 0, {EOF})}
    ELSE {i \in family.item_sets[k] : i.dot > 0}

\* C22: the closure of a kernel is the reference LR(1) closure of it: the
\* least item set with the kernel where every [A -> alpha . B beta, L]
\* brings [B -> . gamma, FIRST(beta) without epsilon, plus L when beta is
\* empty or nullable], items of equal core merged.
C22_ClosureIsReference ==
    (IsAugmented /\ FamilyBuilt) =>
        \A k \in 1..Len(family.item_sets) :
            family.item_sets[k]
                = ref_closure(ref_first(grammar), grammar.prods, ref_merged(kernel_of(k)))

(***************************************************************************)
(* Claims about the driver's stacks and its termination.                   *)
(***************************************************************************)
\* the step from drv to drv' went through fn reduce up to its GOTO lookup
reduced == Len(drv'.steps) = Len(drv.steps) + 1 /\ drv'.status # "abort"

\* ... and pushed no state after its pops: the two stacks, which shrink
\* together, are one apart afterwards
skip_taken ==
    reduced /\ Len(drv'.stack) - Len(drv.stack) = Len(drv'.step) - Len(drv.step) - 1

\* the step from drv to drv' accepted the input (a normal or a panic-mode
\* Accept, with its reduce(0))
accepts == drv.status = "running" /\ drv'.status = "accepted"

\* C23 (as claimed): with a conflict-free table of an augmented grammar no
\* call of the driver's reduce finds GOTO(top, A) undefined: the branch
\* that skips the push is never taken.
C23_SkipNeverTaken ==
    (DriverStarted /\ ~HasConflictCell) => ~drv.skipped

\* the state the pop of the accepting reduce(0) leaves on top of the stack
exposed == drv.stack[Len(drv.stack) - 1]

\* an item of state k (0-based) expects the augmented start symbol
start_expected(k) ==
    \E i \in family.item_sets[k + 1] : expected(i) = NonTermTok(grammar.start)

\* the augmented start symbol stands in the tail of some production
start_in_tail ==
    \E i \in DOMAIN grammar.prods :
        NonTermTok(grammar.start) \in Range(grammar.prods[i].tail)

\* C23 (amended): with a conflict-free table of an augmented grammar the
\* reductions of Reduce cells and of panic-mode Reduce find GOTO(top, A)
\* defined and push it: the branch that skips the push is taken at an
\* accepting step only. The reduce(0) of Accept (normal or panic-mode)
\* skips the push exactly when no item of the state its pop exposes
\* expects the augmented start symbol, and so on every accepting run of a
\* grammar that has the augmented start symbol in no tail.
C23_SkipOnlyAtAccept ==
    [][~HasConflictCell =>
          /\ skip_taken => accepts
          /\ accepts => (skip_taken <=> ~start_expected(exposed))
          /\ (accepts /\ ~start_in_tail) => skip_taken]_vars

\* an accepted run with panic recovery and reductions before the last one:
\* the earlier ones pushed their GOTO, the last one skipped the push
C23_Witness ==
    /\ ~HasConflictCell
    /\ drv.status = "accepted"
    /\ drv.skipped
    /\ drv.recovered
    /\ Len(drv.steps) >= 3

\* the panics of fn reduce's pops and of the loop's stack.last()
stack_panics ==
    {"step.pop().unwrap()", "assert_eq!(popen, *tok)", "stack.pop().unwrap()",
     "stack.last().unwrap()"}

\* C24: in every run on a conflict-free table, with or without panic
\* recovery, each reduction finds the reversed non-epsilon tail of its
\* production on top of `step`, no stack is popped when empty, and the
\* state stack is not empty at the top of the loop.
C24_StacksMatchReductions ==
    (DriverStarted /\ ~HasConflictCell) =>
        /\ ~(drv.status = "abort" /\ drv.why \in stack_panics)
        /\ drv.stack # <<>>

\* a finished run that went through panic recovery and made a reduction
\* popping two tokens or more: the snapshot logged by the next reduction is
\* shorter than the one logged by it
C24_Witness ==
    /\ ~HasConflictCell
    /\ drv.recovered
    /\ drv.status \in {"accepted", "escaped"}
    /\ \E i \in 1..(Len(drv.steps) - 1) :
          Len(drv.steps[i + 1].step) < Len(drv.steps[i].step)

\* the loop is at an iteration the model takes: the driver is running and
\* within the bound on its steps
can_step == drv.status = "running" /\ Len(drv.steps) + drv.pos < MaxSteps

\* C25: on a conflict-free table every run of the parse loop ends, at
\* Accept (normal or panic-mode) or at the panic-escaped exit at EOF: a
\* run that has not reached one of them goes on, and within MaxSteps
\* iterations it reaches one.
C25_DriverTerminates ==
    (DriverStarted /\ ~HasConflictCell) =>
        (drv.status \in {"accepted", "escaped"} \/ can_step)

(***************************************************************************)
(* Claims about the FIRST cache and the production indexes.                *)
(***************************************************************************)
\* C26: InvalidFirstSetState stays inside calc_first: no call of first_set
\* returns it, and when a call has returned, with Ok or with an error, no
\* cache entry is left Calculating, whatever calls were made before.
C26_InvalidStateIsInternal ==
    query # NoQuery =>
        /\ query.err # "InvalidFirstSetState"
        /\ \A n \in DOMAIN grammar.first_sets : grammar.first_sets[n].st # "Calculating"

\* a second call in a row that met a left recursion: calc_first answered
\* InvalidFirstSetState inside, first_set returned UnresolvableFirstSet
C26_Witness ==
    /\ nq = 2
    /\ query.err = "UnresolvableFirstSet"
    /\ \E n \in DOMAIN grammar.first_sets : grammar.first_sets[n].st = "Presense"

\* index_of_prod gives every production of g its position in prods()
indexes_invert_prods(g) ==
    \A i \in DOMAIN g.prods : index_of_prod(g, g.prods[i]) = i - 1

\* C27: for every grammar from_cfg builds, before and after augmented(),
\* index_of_prod(prods()[i]) is Some(i) for every i, also when the text
\* gives one production twice.
C27_IndexInvertsProds ==
    /\ Parsed => indexes_invert_prods(parsed)
    /\ (Parsed /\ IsAugmented) => indexes_invert_prods(grammar)

(***************************************************************************)
(* Claims about the synthesized shift and the lookaheads.                  *)
(***************************************************************************)
\* what follows a synthesized shift Shift(x, to) answered for (s, a): the
\* table shifts x to `to` in s, and has an action for a in `to`
shift_is_followed(s, a, act) ==
    /\ table_action(table, s, act.x) = Shift(act.n)
    /\ table_action(table, act.n, a) \notin {Empty, NoCell}

\* C28: on a conflict-free table, whenever panic_action(s, a) returns
\* Shift(x, s'), ACTION[s][x] is Shift(s') and ACTION[s'][a] is not Empty:
\* the step after the synthesized shift is a normal one on the lookahead a.
C28_SynthesizedShiftIsFollowed ==
    (IsAugmented /\ TableFresh /\ ~HasConflictCell) =>
        \A c \in empty_cells : \A pa \in panic_action(family, grammar, c[1], c[2]) :
            (pa.err = "none" /\ pa.act.t = "Shift") =>
                shift_is_followed(c[1], c[2], pa.act)

\* the answer of the query is the answer r that first_set gives for the
\* same sequence on the grammar just built
same_as_anew(r) == r.err = query.err /\ r.set = query.set

\* C29: the FIRST cache is transparent: what first_set returns for a
\* sequence does not depend on the calls made before it nor on the order
\* in which prods_of enumerates the productions.
C29_CacheIsTransparent ==
    query # NoQuery =>
        \A r \in first_set_anew(fresh_grammar, query.seq) : same_as_anew(r)

\* C30: epsilon is a lookahead of no item of any state of the family, and
\* so the epsilon column of ACTION is Empty in every row.
C30_EpsilonIsNoLookahead ==
    /\ FamilyExists =>
          \A k \in DOMAIN family.item_sets : \A i \in family.item_sets[k] :
              EPSILON \notin i.look_aheads
    /\ TableBuilt =>
          \A s \in 0..(Len(family.item_sets) - 1) :
              table_action(table, s, EPSILON) = Empty

\* a table with an epsilon column, built on a family with an item that got
\* its lookaheads where first_set answered with epsilon: the item of an
\* epsilon production, added behind a nullable rest
C30_Witness ==
    /\ TableBuilt
    /\ EPSILON \in Range(table.terms)
    /\ \E k \in DOMAIN family.item_sets : \E i \in family.item_sets[k] :
          /\ TermTok(EPSILON) \in Range(i.prod.tail)
          /\ i.look_aheads # {}
    /\ \E k \in DOMAIN family.item_sets : \E i \in family.item_sets[k] :
          /\ expected(i) # NoToken
          /\ ~is_term(expected(i))
          /\ future_seq(i) = <<>>

====
